---- MODULE Spec2Model ----
(***************************************************************************)
(* Model of the catalog indexing and retrieval engine.                     *)
(*                                                                         *)
(*   indexer.py    load_data, index_data  (offline index build)            *)
(*   processor.py  search_api, get_top_k_results  (query scoring)          *)
(*                                                                         *)
(* Three specifications are defined over one set of variables:             *)
(*   SpecTok    the two tokenisers applied to one text                     *)
(*   SpecBuild  the index build, from the input file to the artifact       *)
(*   Spec       the serving process: requests scored against a loaded      *)
(*              index, interleaved                                         *)
(*                                                                         *)
(* Text is a sequence of characters, a term is a sequence of characters, a *)
(* Python dict is a sequence of <<key, value>> pairs with distinct keys,   *)
(* in insertion order.  TF-IDF weights are reals in (0, 1] in the code; the  *)
(* model draws them from 1..MaxWeight, MaxWeight standing for 1.0, and     *)
(* adds them as integers.                                                  *)
(***************************************************************************)
EXTENDS Integers, Sequences, FiniteSets, TLC

\* ------------------------------------------------------------------ bounds
MaxTextLen == 4
MaxRecords == 3
MaxWeight == 2
MaxK == 2

\* --------------------------------------------------------------- characters
\* The characters of the model: two lowercase letters, one uppercase letter,
\* a punctuation mark and whitespace.
Chars == {"a", "n", "N", ",", " "}

\* \w of the token pattern: letters are word characters.
IsWordChar(c) == c \in {"a", "n", "N"}

\* str.isspace, as str.split() uses it.
IsSpace(c) == c = " "

\* str.lower on one character.
LowerChar(c) == IF c = "N" THEN "n" ELSE c

\* Code point order of the characters (for the sorted vocabulary).
CharRank(c) ==
    CASE c = " " -> 32
      [] c = "," -> 44
      [] c = "N" -> 78
      [] c = "a" -> 97
      [] c = "n" -> 110

\* str.lower()
Lower(text) == [i \in 1..Len(text) |-> LowerChar(text[i])]

\* The part of sklearn's ENGLISH_STOP_WORDS that the model's letters can spell.
StopWords == { <<"a">>, <<"a", "n">> }

\* ---------------------------------------------------------------- tokenisers
RECURSIVE PySplitFrom(_, _, _, _)
\* str.split() with no separator: the maximal runs of non-whitespace
\* characters, left to right; cur is the run being read.
PySplitFrom(text, i, cur, acc) ==
    IF i > Len(text)
    THEN IF cur = <<>> THEN acc ELSE Append(acc, cur)
    ELSE IF IsSpace(text[i])
         THEN PySplitFrom(text, i + 1, <<>>,
                          IF cur = <<>> THEN acc ELSE Append(acc, cur))
         ELSE PySplitFrom(text, i + 1, Append(cur, text[i]), acc)

PySplit(text) == PySplitFrom(text, 1, <<>>, <<>>)

\* terms = query.lower().split()
QueryTerms(query) == PySplit(Lower(query))

RECURSIVE WordRunsFrom(_, _, _, _)
\* re.findall(r"(?u)\b\w\w+\b", text): the maximal runs of word characters
\* that are at least two characters long.
WordRunsFrom(text, i, cur, acc) ==
    IF i > Len(text)
    THEN IF Len(cur) >= 2 THEN Append(acc, cur) ELSE acc
    ELSE IF IsWordChar(text[i])
         THEN WordRunsFrom(text, i + 1, Append(cur, text[i]), acc)
         ELSE WordRunsFrom(text, i + 1, <<>>,
                           IF Len(cur) >= 2 THEN Append(acc, cur) ELSE acc)

WordRuns(text) == WordRunsFrom(text, 1, <<>>, <<>>)

IsNotStopWord(tok) == tok \notin StopWords

\* The analyzer of TfidfVectorizer(stop_words='english'): lowercase, take the
\* tokens of the token pattern, drop the stop words.
Analyze(text) == SelectSeq(WordRuns(Lower(text)), IsNotStopWord)

\* ------------------------------------------------------------ Python dicts
\* A dict is a sequence of <<key, value>> pairs with distinct keys, in
\* insertion order.
DictKeys(d) == [i \in 1..Len(d) |-> d[i][1]]

DictValues(d) == [i \in 1..Len(d) |-> d[i][2]]

KeySet(d) == {d[i][1] : i \in 1..Len(d)}

DictHas(d, key) == key \in KeySet(d)

DictGet(d, key) == d[CHOOSE i \in 1..Len(d) : d[i][1] = key][2]

\* d[key] = val: an existing key keeps its position, a new key goes last.
DictSet(d, key, val) ==
    IF DictHas(d, key)
    THEN [i \in 1..Len(d) |-> IF d[i][1] = key THEN <<key, val>> ELSE d[i]]
    ELSE Append(d, <<key, val>>)

\* Position of a key in a sequence of distinct keys.
IndexIn(keys, key) == CHOOSE i \in 1..Len(keys) : keys[i] = key

Range(s) == {s[i] : i \in 1..Len(s)}

SeqsUpTo(S, n) == UNION {[1..m -> S] : m \in 0..n}

Min(a, b) == IF a <= b THEN a ELSE b

\* ------------------------------------------------------------------ inputs
\* Document keys.
Keys == {"d1", "d2"}

\* Document texts: "", "an" (a stop word only), "na", "aa", "na aa".
DocTexts ==
    { <<>>,
      <<"a", "n">>,
      <<"n", "a">>,
      <<"a", "a">>,
      <<"n", "a", " ", "a", "a">> }

\* The lines of an input file, each parsed to its single (key, text) entry.
Records == Keys \X DocTexts

Files == SeqsUpTo(Records, MaxRecords)

\* ---------------------------------------------------------------- variables
VARIABLES
    \* tokenisers
    text,             \* the text given to both tokenisers
    doc_terms,        \* <<terms>> once the analyzer has run, else <<>>
    query_terms,      \* <<terms>> once the query split has run, else <<>>
    \* indexer.py
    file,             \* the lines of the input file
    line_no,          \* load_data: the next line to read
    data_dict,        \* load_data: data_dict
    bpc,              \* index_data: "load", "fit", "index", "done", "raised"
    feature_names,    \* index_data: feature_names
    tfidf_matrix,     \* index_data: tfidf_matrix[doc_idx][idx]
    idx,              \* index_data: the outer loop's idx (from 1)
    inverted_index,   \* index_data: inverted_index
    outfile,          \* <<index>> once the artifact is written, else <<>>
    \* processor.py
    doc_keys,         \* the corpus order of the documents behind data
    data,             \* the module-level loaded index
    loaded,           \* the value of data at start-up
    req               \* the requests in flight

tokVars == <<text, doc_terms, query_terms>>

buildVars == <<file, line_no, data_dict, bpc, feature_names, tfidf_matrix,
               idx, inverted_index, outfile>>

serveVars == <<doc_keys, data, loaded, req>>

vars == <<text, doc_terms, query_terms, file, line_no, data_dict, bpc,
          feature_names, tfidf_matrix, idx, inverted_index, outfile,
          doc_keys, data, loaded, req>>

\* ----------------------------------------------------------------- indexer
\* Lexicographic order of two terms by code point.
RECURSIVE LexLeq(_, _)
LexLeq(s, t) ==
    IF s = <<>> THEN TRUE
    ELSE IF t = <<>> THEN FALSE
    ELSE IF CharRank(Head(s)) # CharRank(Head(t))
         THEN CharRank(Head(s)) < CharRank(Head(t))
         ELSE LexLeq(Tail(s), Tail(t))

RECURSIVE SortedSeq(_)
SortedSeq(S) ==
    IF S = {} THEN <<>>
    ELSE LET m == CHOOSE x \in S : \A y \in S : LexLeq(x, y)
         IN  <<m>> \o SortedSeq(S \ {m})

\* The vocabulary fit_transform learns: every term of every document.
Vocabulary(doc_values) ==
    UNION {Range(Analyze(doc_values[d])) : d \in 1..Len(doc_values)}

\* vectorizer.get_feature_names_out(): the vocabulary in sorted order.
FeatureNames(doc_values) == SortedSeq(Vocabulary(doc_values))

\* Number of terms of the vocabulary that occur in document d.
RowTerms(doc_values, d) == Cardinality(Range(Analyze(doc_values[d])))

\* The matrices fit_transform may return.  Entry (d, t) is positive exactly
\* when term t occurs in document d.  Rows are L2-normalised, and MaxWeight
\* stands for the weight 1.0: the row of a document with one term holds
\* MaxWeight, the row of a document with several terms holds smaller weights.
Matrices(doc_values) ==
    LET features == FeatureNames(doc_values)
    IN  { W \in [1..Len(doc_values) -> [1..Len(features) -> 0..MaxWeight]] :
            \A d \in 1..Len(doc_values) : \A t \in 1..Len(features) :
                IF features[t] \in Range(Analyze(doc_values[d]))
                THEN IF RowTerms(doc_values, d) = 1
                     THEN W[d][t] = MaxWeight
                     ELSE W[d][t] \in 1..(MaxWeight - 1)
                ELSE W[d][t] = 0 }

\* if score > 0
ScoreKeptZero(score) == score >= 0

ScoreKept(score) == score > 0

RECURSIVE PostingFrom(_, _, _, _, _)
\* The inner loop of index_data for feature t, from document d on.
PostingFrom(keys, W, t, d, acc) ==
    IF d > Len(keys) THEN acc
    ELSE PostingFrom(keys, W, t, d + 1,
                     IF ScoreKept(W[d][t])
                     THEN DictSet(acc, keys[d], W[d][t])
                     ELSE acc)

Posting(keys, W, t) == PostingFrom(keys, W, t, 1, <<>>)

RECURSIVE BuildFrom(_, _, _, _, _)
\* The outer loop of index_data, from feature t on.
BuildFrom(keys, features, W, t, acc) ==
    IF t > Len(features) THEN acc
    ELSE BuildFrom(keys, features, W, t + 1,
                   DictSet(acc, features[t], Posting(keys, W, t)))

BuildIndex(keys, features, W) == BuildFrom(keys, features, W, 1, <<>>)

\* data_dict.update(json_data) with first-write-wins instead.
UpdateFirstWins(d, rec) == IF DictHas(d, rec[1]) THEN d ELSE DictSet(d, rec[1], rec[2])

\* data_dict.update(json_data) for a single-entry record.
Update(d, rec) == DictSet(d, rec[1], rec[2])

RECURSIVE LoadFrom(_, _, _)
\* load_data as a function of the file.
LoadFrom(lines, i, acc) ==
    IF i > Len(lines) THEN acc
    ELSE LoadFrom(lines, i + 1, Update(acc, lines[i]))

load_data(lines) == LoadFrom(lines, 1, <<>>)

\* One iteration of load_data's loop.
LoadLine ==
    /\ bpc = "load"
    /\ line_no <= Len(file)
    /\ data_dict' = Update(data_dict, file[line_no])
    /\ line_no' = line_no + 1
    /\ UNCHANGED <<file, bpc, feature_names, tfidf_matrix, idx,
                   inverted_index, outfile>>
    /\ UNCHANGED <<tokVars, serveVars>>

\* load_data returns; documents = data_dict.
LoadReturn ==
    /\ bpc = "load"
    /\ line_no > Len(file)
    /\ bpc' = "fit"
    /\ UNCHANGED <<file, line_no, data_dict, feature_names, tfidf_matrix,
                   idx, inverted_index, outfile>>
    /\ UNCHANGED <<tokVars, serveVars>>

\* fit_transform raises ValueError("empty vocabulary; ...") when no term
\* survives; index_data does not catch it.
FitRaise ==
    /\ bpc = "fit"
    /\ Vocabulary(DictValues(data_dict)) = {}
    /\ bpc' = "raised"
    /\ UNCHANGED <<file, line_no, data_dict, feature_names, tfidf_matrix,
                   idx, inverted_index, outfile>>
    /\ UNCHANGED <<tokVars, serveVars>>

\* fit_transform and get_feature_names_out; inverted_index = {}.
FitTransform ==
    /\ bpc = "fit"
    /\ Vocabulary(DictValues(data_dict)) # {}
    /\ feature_names' = FeatureNames(DictValues(data_dict))
    /\ tfidf_matrix' \in Matrices(DictValues(data_dict))
    /\ idx' = 1
    /\ inverted_index' = <<>>
    /\ bpc' = "index"
    /\ UNCHANGED <<file, line_no, data_dict, outfile>>
    /\ UNCHANGED <<tokVars, serveVars>>

\* One iteration of the outer loop: the posting list of feature idx.
IndexFeature ==
    /\ bpc = "index"
    /\ idx <= Len(feature_names)
    /\ inverted_index' = DictSet(inverted_index, feature_names[idx],
                                 Posting(DictKeys(data_dict), tfidf_matrix, idx))
    /\ idx' = idx + 1
    /\ UNCHANGED <<file, line_no, data_dict, bpc, feature_names,
                   tfidf_matrix, outfile>>
    /\ UNCHANGED <<tokVars, serveVars>>

\* json.dump(inverted_index, outfile)
Dump ==
    /\ bpc = "index"
    /\ idx > Len(feature_names)
    /\ outfile' = <<inverted_index>>
    /\ bpc' = "done"
    /\ UNCHANGED <<file, line_no, data_dict, feature_names, tfidf_matrix,
                   idx, inverted_index>>
    /\ UNCHANGED <<tokVars, serveVars>>

\* --------------------------------------------------------------- processor
Requests == {"r1", "r2"}

\* Query strings: "", "Na", "na aa", "na na".
QueryTexts ==
    { <<>>,
      <<"N", "a">>,
      <<"n", "a", " ", "a", "a">>,
      <<"n", "a", " ", "n", "a">> }

\* request.args: a parameter is <<value>> when present and <<>> when absent.
QueryArgs == {<<>>} \cup {<<q>> : q \in QueryTexts}

KArgs == {<<>>} \cup {<<n>> : n \in (-1)..MaxK}

\* request.args.get('k', 10)
DefaultK == 10

\* The artifacts the serving process may be started on: every index that
\* index_data writes for a file, and the empty index.  Each comes with the
\* corpus order of its documents.
IndexesOf(f) ==
    LET documents == load_data(f)
    IN  IF Vocabulary(DictValues(documents)) = {} THEN {}
        ELSE { <<DictKeys(documents),
                 BuildIndex(DictKeys(documents),
                            FeatureNames(DictValues(documents)), W)>> :
                 W \in Matrices(DictValues(documents)) }

Indexes == UNION {IndexesOf(f) : f \in Files} \cup { << <<>>, <<>> >> }

Idle == [status |-> "idle", query |-> <<>>, k |-> 0, terms |-> <<>>,
         t |-> 1, scores |-> <<>>, result |-> <<>>]

\* scores[url] += score, or scores[url] = score for a new url.
Accumulate(scores, url, score) ==
    IF DictHas(scores, url)
    THEN DictSet(scores, url, DictGet(scores, url) + score)
    ELSE DictSet(scores, url, score)

RECURSIVE AddPosting(_, _, _)
\* for url, score in data[term].items(), from entry i on.
AddPosting(scores, posting, i) ==
    IF i > Len(posting) THEN scores
    ELSE AddPosting(Accumulate(scores, posting[i][1], posting[i][2]),
                    posting, i + 1)

\* Position at which a stable ascending sort inserts item.
InsertPosAsc(sorted, item) ==
    Cardinality({i \in 1..Len(sorted) : sorted[i][2] <= item[2]})

\* Position at which a stable descending sort inserts item: after every
\* entry whose score is at least item's.
InsertPos(sorted, item) ==
    Cardinality({i \in 1..Len(sorted) : sorted[i][2] >= item[2]})

RECURSIVE SortFrom(_, _, _)
\* sorted(items, key=lambda item: item[1], reverse=True): stable.
SortFrom(items, i, acc) ==
    IF i > Len(items) THEN acc
    ELSE LET p == InsertPos(acc, items[i])
         IN  SortFrom(items, i + 1,
                      SubSeq(acc, 1, p) \o <<items[i]>> \o SubSeq(acc, p + 1, Len(acc)))

SortedByScore(items) == SortFrom(items, 1, <<>>)

\* s[:k]; a negative k counts from the end.
SliceTo(s, k) ==
    IF k >= 0 THEN SubSeq(s, 1, Min(k, Len(s)))
    ELSE SubSeq(s, 1, Len(s) + k)

\* data.get(term, <first posting list>): an unknown term falls back to a
\* posting list of the index.
LookupFallback(d, term) ==
    IF DictHas(d, term) THEN DictGet(d, term)
    ELSE IF d # <<>> THEN d[1][2] ELSE <<>>

\* if term in data: data[term].items(); nothing to iterate otherwise.
Lookup(d, term) == IF DictHas(d, term) THEN DictGet(d, term) ELSE <<>>

RECURSIVE ScoreFrom(_, _, _, _)
\* The scoring loop of get_top_k_results over index d, from term t on.
ScoreFrom(d, terms, t, scores) ==
    IF t > Len(terms) THEN scores
    ELSE ScoreFrom(d, terms, t + 1,
                   AddPosting(scores, Lookup(d, terms[t]), 1))

\* get_top_k_results run alone on index d.
get_top_k_results(d, query, k) ==
    SliceTo(SortedByScore(ScoreFrom(d, QueryTerms(query), 1, <<>>)), k)

\* search_api reads its parameters and get_top_k_results tokenises the query.
Search(r) ==
    /\ req[r].status = "idle"
    /\ \E qa \in QueryArgs, ka \in KArgs :
          LET query == IF qa = <<>> THEN <<>> ELSE qa[1]
              k     == IF ka = <<>> THEN DefaultK ELSE ka[1]
          IN  req' = [req EXCEPT ![r] =
                        [status |-> "scoring", query |-> query, k |-> k,
                         terms |-> QueryTerms(query), t |-> 1,
                         scores |-> <<>>, result |-> <<>>]]
    /\ UNCHANGED <<doc_keys, data, loaded>>
    /\ UNCHANGED <<tokVars, buildVars>>

\* As ScoreTerm, but the accumulated scores are written back into the index.
ScoreTermShared(r) ==
    /\ req[r].status = "scoring"
    /\ req[r].t <= Len(req[r].terms)
    /\ LET term == req[r].terms[req[r].t]
           new  == AddPosting(req[r].scores, Lookup(data, term), 1)
       IN  /\ req' = [req EXCEPT ![r].scores = new, ![r].t = @ + 1]
           /\ data' = IF DictHas(data, term) THEN DictSet(data, term, new)
                      ELSE data
    /\ UNCHANGED <<doc_keys, loaded>>
    /\ UNCHANGED <<tokVars, buildVars>>

\* One iteration of the loop over the query's terms.
ScoreTerm(r) ==
    /\ req[r].status = "scoring"
    /\ req[r].t <= Len(req[r].terms)
    /\ LET term == req[r].terms[req[r].t]
       IN  req' = [req EXCEPT
                     ![r].scores = AddPosting(@, Lookup(data, term), 1),
                     ![r].t = @ + 1]
    /\ UNCHANGED <<doc_keys, data, loaded>>
    /\ UNCHANGED <<tokVars, buildVars>>

\* sorted(...)[:k] and return.
Return(r) ==
    /\ req[r].status = "scoring"
    /\ req[r].t > Len(req[r].terms)
    /\ req' = [req EXCEPT
                 ![r].result = SliceTo(SortedByScore(req[r].scores), req[r].k),
                 ![r].status = "returned"]
    /\ UNCHANGED <<doc_keys, data, loaded>>
    /\ UNCHANGED <<tokVars, buildVars>>

\* The response is sent; the worker takes the next request.
Respond(r) ==
    /\ req[r].status = "returned"
    /\ req' = [req EXCEPT ![r] = Idle]
    /\ UNCHANGED <<doc_keys, data, loaded>>
    /\ UNCHANGED <<tokVars, buildVars>>

\* ----------------------------------------------------- tokeniser actions
\* The analyzer of the index build applied to text.
AnalyzeText ==
    /\ doc_terms = <<>>
    /\ doc_terms' = <<Analyze(text)>>
    /\ UNCHANGED <<text, query_terms>>
    /\ UNCHANGED <<buildVars, serveVars>>

\* get_top_k_results' first line applied to text.
SplitQuery ==
    /\ query_terms = <<>>
    /\ query_terms' = <<QueryTerms(text)>>
    /\ UNCHANGED <<text, doc_terms>>
    /\ UNCHANGED <<buildVars, serveVars>>

\* ------------------------------------------------------------ specifications
TokIdle == text = <<>> /\ doc_terms = <<>> /\ query_terms = <<>>

BuildIdle ==
    /\ file = <<>> /\ line_no = 1 /\ data_dict = <<>> /\ bpc = "off"
    /\ feature_names = <<>> /\ tfidf_matrix = <<>> /\ idx = 1
    /\ inverted_index = <<>> /\ outfile = <<>>

ServeIdle ==
    /\ doc_keys = <<>> /\ data = <<>> /\ loaded = <<>>
    /\ req = [r \in Requests |-> Idle]

\* The serving process after start-up: data = json.load(f).
Init ==
    /\ TokIdle
    /\ BuildIdle
    /\ \E ix \in Indexes :
          /\ doc_keys = ix[1]
          /\ data = ix[2]
          /\ loaded = ix[2]
    /\ req = [r \in Requests |-> Idle]

Next ==
    \/ \E r \in Requests : Search(r)
    \/ \E r \in Requests : ScoreTerm(r)
    \/ \E r \in Requests : Return(r)
    \/ \E r \in Requests : Respond(r)

Spec == Init /\ [][Next]_vars

\* The indexer started on a file.
InitBuild ==
    /\ TokIdle
    /\ ServeIdle
    /\ file \in Files
    /\ line_no = 1
    /\ data_dict = <<>>
    /\ bpc = "load"
    /\ feature_names = <<>>
    /\ tfidf_matrix = <<>>
    /\ idx = 1
    /\ inverted_index = <<>>
    /\ outfile = <<>>

NextBuild ==
    \/ LoadLine
    \/ LoadReturn
    \/ FitRaise
    \/ FitTransform
    \/ IndexFeature
    \/ Dump

SpecBuild == InitBuild /\ [][NextBuild]_vars

\* Both tokenisers given the same text.
InitTok ==
    /\ BuildIdle
    /\ ServeIdle
    /\ text \in SeqsUpTo(Chars, MaxTextLen)
    /\ doc_terms = <<>>
    /\ query_terms = <<>>

NextTok ==
    \/ AnalyzeText
    \/ SplitQuery

SpecTok == InitTok /\ [][NextTok]_vars

\* ------------------------------------------------------------------ claims
Returned(r) == req[r].status = "returned"

\* Weight of (term, url) in index d; 0 when there is no such posting.
WeightOf(d, term, url) ==
    IF DictHas(d, term) /\ DictHas(DictGet(d, term), url)
    THEN DictGet(DictGet(d, term), url)
    ELSE 0

\* The documents in the posting list of some term of the query.
ScoringDocs(d, terms) ==
    {url \in Keys : \E i \in 1..Len(terms) : WeightOf(d, terms[i], url) > 0}

RECURSIVE SumOverTerms(_, _, _, _)
\* Sum of the weights of url over the term occurrences i..Len(terms).
SumOverTerms(d, terms, i, url) ==
    IF i > Len(terms) THEN 0
    ELSE WeightOf(d, terms[i], url) + SumOverTerms(d, terms, i + 1, url)

RECURSIVE SumOverSet(_, _, _)
\* Sum of the weights of url over a set of terms.
SumOverSet(d, T, url) ==
    IF T = {} THEN 0
    ELSE LET term == CHOOSE x \in T : TRUE
         IN  WeightOf(d, term, url) + SumOverSet(d, T \ {term}, url)

ResultDocs(r) == {req[r].result[i][1] : i \in 1..Len(req[r].result)}

\* C1: in a result for k >= 0, two documents with equal accumulated scores
\* appear in the order of their insertion into the corpus.
C1_TiesInCorpusOrder ==
    \A r \in Requests :
        (Returned(r) /\ req[r].k >= 0) =>
            \A i, j \in 1..Len(req[r].result) :
                (i < j /\ req[r].result[i][2] = req[r].result[j][2]) =>
                    IndexIn(doc_keys, req[r].result[i][1])
                        < IndexIn(doc_keys, req[r].result[j][1])

\* C2: a request with k < 0 is rejected before any scoring work is done and
\* never returns a result list.
C2_NegativeKRejected ==
    \A r \in Requests :
        req[r].k < 0 => (req[r].t = 1 /\ ~Returned(r))

\* C3: the score of a document in a result is the sum of its weights over
\* the distinct query terms, a repeated term counting once.
C3_DistinctTermsOnce ==
    \A r \in Requests :
        (Returned(r) /\ req[r].k >= 0) =>
            \A i \in 1..Len(req[r].result) :
                req[r].result[i][2]
                    = SumOverSet(data, Range(req[r].terms), req[r].result[i][1])

\* C4: for k >= 0 the result has min(k, n) entries, n the number of scoring
\* documents; they are distinct scoring documents with their accumulated
\* scores, in non-increasing score order, and no document left out scores
\* higher than one returned.
C4_TopK ==
    \A r \in Requests :
        (Returned(r) /\ req[r].k >= 0) =>
            LET res  == req[r].result
                docs == ScoringDocs(data, req[r].terms)
            IN  /\ Len(res) = Min(req[r].k, Cardinality(docs))
                /\ Cardinality(ResultDocs(r)) = Len(res)
                /\ \A i \in 1..Len(res) :
                      /\ res[i][1] \in docs
                      /\ res[i][2] = SumOverTerms(data, req[r].terms, 1, res[i][1])
                /\ \A i \in 1..(Len(res) - 1) : res[i][2] >= res[i + 1][2]
                /\ \A url \in docs \ ResultDocs(r) : \A i \in 1..Len(res) :
                      res[i][2] >= SumOverTerms(data, req[r].terms, 1, url)

\* A request returned the higher-scoring of two scoring documents, which the
\* scoring loop met second.
C4_Witness ==
    \E r \in Requests :
        /\ Returned(r)
        /\ req[r].k = 1
        /\ Len(req[r].scores) = 2
        /\ req[r].scores[1][2] < req[r].scores[2][2]
        /\ req[r].result = <<req[r].scores[2]>>

\* C5: for k >= 0 the result is empty when the index is empty, the query is
\* empty or no query term is in the index; a document in a result is in the
\* posting list of a query term.
C5_EmptyNoError ==
    \A r \in Requests :
        (Returned(r) /\ req[r].k >= 0) =>
            /\ ( \/ data = <<>>
                 \/ req[r].query = <<>>
                 \/ \A i \in 1..Len(req[r].terms) : ~DictHas(data, req[r].terms[i]) )
               => req[r].result = <<>>
            /\ \A url \in ResultDocs(r) :
                  \E i \in 1..Len(req[r].terms) :
                      WeightOf(data, req[r].terms[i], url) > 0

\* A query whose terms are all unknown to a non-empty index returned the
\* empty list, and another query returned a document while the corpus holds
\* a second document without any of its terms.
C5_Witness ==
    /\ Returned("r1")
    /\ req["r1"].k > 0
    /\ req["r1"].terms # <<>>
    /\ data # <<>>
    /\ req["r1"].result = <<>>
    /\ Returned("r2")
    /\ Len(req["r2"].result) = 1
    /\ req["r2"].k > 1
    /\ Len(doc_keys) = 2

\* C6: load_data returns a mapping whose keys are the keys of the file and
\* whose value for a key is the text of the last record with that key.
C6_LastWriteWins ==
    bpc \in {"fit", "index", "done", "raised"} =>
        /\ KeySet(data_dict) = {file[i][1] : i \in 1..Len(file)}
        /\ Len(data_dict) = Cardinality(KeySet(data_dict))
        /\ \A i \in 1..Len(file) :
              (\A j \in (i + 1)..Len(file) : file[j][1] # file[i][1])
                  => DictGet(data_dict, file[i][1]) = file[i][2]
        /\ (file = <<>> => data_dict = <<>>)

\* load_data returned for a file in which a key occurs twice with
\* different texts.
C6_Witness ==
    /\ bpc = "fit"
    /\ \E i, j \in 1..Len(file) :
          i < j /\ file[i][1] = file[j][1] /\ file[i][2] # file[j][2]

\* C7: a build from an empty corpus or an empty vocabulary completes
\* without raising and writes the empty index.
C7_EmptyBuildCompletes ==
    (bpc \in {"done", "raised"} /\ Vocabulary(DictValues(data_dict)) = {}) =>
        (bpc = "done" /\ outfile = << <<>> >>)

\* C8: a term the index build derives from a text is among the terms
\* get_top_k_results derives from the same text as a query (the two term
\* sequences being the same).
C8_SameTerms ==
    (doc_terms # <<>> /\ query_terms # <<>>) =>
        Range(doc_terms[1]) \subseteq Range(query_terms[1])

\* C9: in the index under construction, a document is in the posting list
\* of a term exactly when its weight for the term is positive, the stored
\* value is that weight, and no stored weight is zero or negative.
C9_PostingIffPositive ==
    bpc \in {"index", "done"} =>
        /\ Len(inverted_index) = idx - 1
        /\ \A t \in 1..Len(inverted_index) :
              LET posting == inverted_index[t][2]
              IN  /\ inverted_index[t][1] = feature_names[t]
                  /\ \A d \in 1..Len(data_dict) :
                        /\ DictHas(posting, data_dict[d][1])
                              <=> tfidf_matrix[d][t] > 0
                        /\ DictHas(posting, data_dict[d][1])
                              => DictGet(posting, data_dict[d][1]) = tfidf_matrix[d][t]
                  /\ \A p \in 1..Len(posting) : posting[p][2] > 0
                  /\ KeySet(posting) \subseteq KeySet(data_dict)

\* The artifact is written from a matrix with a zero entry and two posting
\* lists.
C9_Witness ==
    /\ bpc = "done"
    /\ Len(inverted_index) = 2
    /\ \E d \in 1..Len(data_dict) : \E t \in 1..Len(feature_names) :
          tfidf_matrix[d][t] = 0

\* C10: the loaded index never changes, and every returned result is the
\* result of the same query run alone against the index loaded at start-up.
C10_IndexImmutable ==
    /\ data = loaded
    /\ \A r \in Requests :
          Returned(r) =>
              req[r].result = get_top_k_results(loaded, req[r].query, req[r].k)

\* One request returned a result while the other was in the middle of its
\* scoring loop.
C10_Witness ==
    /\ Returned("r1")
    /\ req["r1"].result # <<>>
    /\ req["r2"].status = "scoring"
    /\ req["r2"].t = 2
    /\ Len(req["r2"].terms) = 2
    /\ req["r2"].scores # <<>>

====
